---- MODULE Spec2Model ----
(***************************************************************************)
(* State-machine model of src/delivery_manager.py: the delivery manager    *)
(* (spawn timer, bounded queue of waiting recipes, success counter), the   *)
(* game-playing flag it reads, and the events it publishes.                *)
(*                                                                         *)
(* The source file has no `class DeliveryManager:` header: the block that  *)
(* starts at line 104 is indented under class KitchenGameManager, so the   *)
(* manager's attributes and methods (lines 110-219) are members of         *)
(* KitchenGameManager and the later definitions of __init__, _instance and *)
(* get_instance replace those of lines 79-89.  The model follows what the  *)
(* interpreter builds from the file: one class, whose instance carries the *)
(* queue, the timer, the counter AND the _is_game_playing attribute, the   *)
(* latter not assigned by the surviving __init__ (lines 115-129).          *)
(*                                                                         *)
(* Timestamps are whole seconds (the code uses floats; SPAWN_RECIPE_TIMER_ *)
(* MAX = 4.0 is 4).  An optional value (Python None or a missing           *)
(* attribute) is the empty sequence, a present value v is <<v>>.           *)
(***************************************************************************)
EXTENDS Integers, Sequences, FiniteSets, TLC

\* ---------------------------------------------------------------- bounds
\* Clock values handed to update are 0, 2, 4, ..., 2 * MaxTicks.
MaxTicks == 10
\* A plate holds at most MaxPlateLen kitchen objects.
MaxPlateLen == 2
\* deliver_recipe is explored while the success counter is below MaxSuccess.
MaxSuccess == 2
\* add_handler is explored while the four events hold fewer than
\* MaxSubscriptions handlers together.
MaxSubscriptions == 3
\* _ingredients_match is evaluated on its own for lists of at most
\* MaxMatchLen kitchen objects.
MaxMatchLen == 3
\* With handlers subscribed, the clock values handed to update are
\* 0, 2, ..., 2 * MaxFaultyTicks.
MaxFaultyTicks == 6
\* With a caller holding a returned list, the clock values handed to update
\* are 0, 2, ..., 2 * MaxSnapshotTicks and the caller grows the list it
\* holds to at most MaxSnapshotLen entries.
MaxSnapshotTicks == 4
MaxSnapshotLen == 3
\* get_instance is called from MaxThreads threads, reset_instance at most
\* MaxResets times.
MaxThreads == 2
MaxResets == 1
\* Concurrent update calls read the clock values 12, 16, ...,
\* 12 + 4 * MaxThreadPeriods.
MaxThreadPeriods == 1
\* In the game loop the clock runs up to 2 * MaxLiveTicks.
MaxLiveTicks == 20
\* With handlers that change the handler list, the event holds at most
\* MaxReentrantHandlers handlers when a handler is added between invokes.
MaxReentrantHandlers == 3

\* ------------------------------------------------------ program constants
SPAWN_RECIPE_TIMER_MAX == 4
WAITING_RECIPES_MAX == 4

\* ------------------------------------------------------------------ data
Tomato == [name |-> "Tomato", object_id |-> 1]
Lettuce == [name |-> "Lettuce", object_id |-> 2]

\* KitchenObjectSO(name, object_id): the kitchen objects of the run.
KitchenObjectSO == { Tomato, Lettuce }

\* A kitchen object with the object id of Tomato under another name, for the
\* evaluation of _ingredients_match on its own.
Cherry == [name |-> "Cherry", object_id |-> 1]

\* RecipeListSO.recipe_so_list: the catalog handed to the constructor.  One
\* recipe lists its ingredients in an order a plate can permute, the other
\* needs the same ingredient twice.
RecipeListSO ==
  << [name |-> "Salad", kitchen_object_so_list |-> <<Lettuce, Tomato>>],
     [name |-> "Puree", kitchen_object_so_list |-> <<Tomato, Tomato>>] >>

\* Sequences over S of length 0..n.
SeqUpTo(S, n) == UNION { [1..k -> S] : k \in 0..n }

\* The argument of deliver_recipe: None, or a PlateKitchenObject whose
\* get_kitchen_object_so_list() returns `items`.
PlateKitchenObject ==
  { [isNone |-> TRUE, items |-> <<>>] } \cup
  { [isNone |-> FALSE, items |-> s] : s \in SeqUpTo(KitchenObjectSO, MaxPlateLen) }

NoPlate == [isNone |-> TRUE, items |-> <<>>]

\* Values the injected clock (self._timer) returns.
Timestamps == { 2 * k : k \in 0..MaxTicks }

VARIABLES
  waiting_recipe_so_list,     \* self._waiting_recipe_so_list
  spawn_recipe_timer,         \* self._spawn_recipe_timer
  successful_recipes_amount,  \* self._successful_recipes_amount
  last_update_time,           \* self._last_update_time (optional)
  is_game_playing,            \* self._is_game_playing (optional: may be unset)
  instance,                   \* cls._instance is this manager (TRUE) or None
  last,                       \* the last call: its name, argument, events, error
  timer_set_at,               \* history: clock value when the timer last held MAX
  succeeded,                  \* history: deliver_recipe calls that published success
  spawned_events,                    \* history: on_recipe_spawned events published so far
  recipe_list_so,             \* self._recipe_list_so.recipe_so_list
  handlers,                   \* Event._handlers of the manager's four events
  dispatch,                   \* the handlers run by the last call, in order
  snapshot,                   \* the list a caller got from get_waiting_recipe_so_list
  threads,                    \* calls in progress on concurrent threads
  singleton,                  \* cls._instance and cls._lock under concurrent callers
  matching,                   \* an evaluation of _ingredients_match on its own
  iteration                   \* the loop of an Event.invoke call in progress

\* The state of the specifications that look at one part of the program on
\* its own; the sequential manager leaves it alone.
others == << snapshot, threads, singleton, matching, iteration >>

vars == << waiting_recipe_so_list, spawn_recipe_timer, successful_recipes_amount,
           last_update_time, is_game_playing, instance, last, timer_set_at,
           succeeded, spawned_events, recipe_list_so, handlers, dispatch, others >>

\* A call as the driver sees it: the method, the plate handed to
\* deliver_recipe, the events published in order, the exception that reached
\* the caller, and for update whether the timer expired and the delta used.
Call(op, plate, fired, raised, expired, delta) ==
  [op |-> op, plate |-> plate, fired |-> fired, raised |-> raised,
   expired |-> expired, delta |-> delta]

\* ------------------------------------------------------------------ events
\* The four Event objects __init__ creates (lines 117-120).
EventNames == { "on_recipe_spawned", "on_recipe_completed",
                "on_recipe_success", "on_recipe_failed" }

\* The callables subscribed in a run; "faulty" raises an Exception when it
\* is called, the others return.
Handler == { "h1", "h2", "faulty" }

HandlerRaises(h) == h = "faulty"

\* Event.__init__ (lines 19-20): self._handlers = []
NoHandlers == [e \in EventNames |-> <<>>]

\* `handler in self._handlers`
Subscribed(hs, h) == \E k \in DOMAIN hs : hs[k] = h

\* Mutant of AddHandler: the membership test is left out.
AddHandler_NoCheck(hs, h) == Append(hs, h)

\* Event.add_handler (lines 22-25)
AddHandler(hs, h) == IF Subscribed(hs, h) THEN hs ELSE Append(hs, h)

\* Event.remove_handler (lines 27-30): list.remove drops the first occurrence
RemoveHandler(hs, h) ==
  IF Subscribed(hs, h)
  THEN LET k == CHOOSE i \in DOMAIN hs :
                  hs[i] = h /\ \A j \in DOMAIN hs : hs[j] = h => i <= j
       IN SubSeq(hs, 1, k - 1) \o SubSeq(hs, k + 1, Len(hs))
  ELSE hs

\* What a call has dispatched: the events whose invoke it called, the
\* (event, handler) pairs called, in order, the handlers whose exception was
\* logged, and whether an exception left invoke towards the publisher.
NoRun == [events |-> <<>>, ran |-> <<>>, logged |-> <<>>, escaped |-> FALSE]

\* Mutant of Caught: no try/except, the exception leaves invoke.
Caught_Propagates(run, h) == [run EXCEPT !.escaped = TRUE]

\* lines 37-38: except Exception as e: logging.error(...)
Caught(run, h) == [run EXCEPT !.logged = Append(@, h)]

\* The loop of Event.invoke (lines 34-38) from position k of the list on.
RECURSIVE RunHandlers(_, _, _, _)
RunHandlers(event, hs, k, run) ==
  IF k > Len(hs) \/ run.escaped THEN run
  ELSE LET called == [run EXCEPT !.ran = Append(@, << event, hs[k] >>)]
       IN RunHandlers(event, hs, k + 1,
                      IF HandlerRaises(hs[k]) THEN Caught(called, hs[k])
                      ELSE called)

\* Event.invoke (lines 32-38) with the handlers subscribed to the event.
InvokeHandlers(event, hs, run) == RunHandlers(event, hs, 1, run)

\* The invoke calls of one method call, for the events it publishes in
\* order; an exception that leaves one invoke ends the method.
RECURSIVE InvokeAll(_, _, _, _)
InvokeAll(hmap, fired, k, run) ==
  IF k > Len(fired) \/ run.escaped THEN run
  ELSE InvokeAll(hmap, fired, k + 1,
                 InvokeHandlers(fired[k], hmap[fired[k]],
                                [run EXCEPT !.events = Append(@, fired[k])]))

\* The record kept of a dispatch: the operation on the events (a method of
\* the manager publishing, or add_handler, remove_handler, invoke called on
\* one event), its arguments and what ran.
Dispatch(op, event, handler, run) ==
  [op |-> op, event |-> event, handler |-> handler, ran |-> run.ran,
   logged |-> run.logged, escaped |-> run.escaped]

NoDispatch == Dispatch("none", "none", "none", NoRun)

\* What a method of the manager has dispatched by its invoke calls.
Published(run) ==
  IF run.events = <<>> THEN NoDispatch
  ELSE Dispatch("publish", "none", "none", run)

\* The event is among the published ones.
Fired(event, fired) == \E k \in DOMAIN fired : fired[k] = event

\* The exception a method's invoke calls hand to its caller.
RaisedByHandlers(run) == IF run.escaped THEN "Exception" ELSE "none"

\* self.<event>.invoke(self) in a method of the manager: the publication is
\* recorded in the call's list of fired events.
Invoke(fired, event) == Append(fired, event)

\* ------------------------------------------------------------- construction
\* No snapshot is held, no thread is inside a call, the singleton slot and
\* the stand-alone evaluation are not looked at.
NoSnapshot ==
  [held |-> FALSE, alias |-> FALSE, mutated |-> FALSE, items |-> <<>>]
\* A thread is outside the manager's methods (idle) or at a place inside
\* update or deliver_recipe, with the plate it delivers and the index its
\* loop stopped at; it keeps the order its last call removed and the error
\* the call raised.
IdleThread ==
  [pc |-> "idle", plate |-> NoPlate, i |-> 0, removed |-> <<>>,
   raised |-> "none"]
Threads == 1..MaxThreads

\* cls._lock is free (0) or held by a thread, cls._instance is None (0) or
\* the n-th manager constructed; each thread is at a place of get_instance
\* (lines 131-139), called with a catalog (arg) or without, and has the
\* outcome of its last call.
NoOutcome == [kind |-> "none", value |-> 0]

NoThreads == [t \in Threads |-> IdleThread]

NoSingleton ==
  [lock |-> 0, instance |-> 0, constructed |-> 0, resets |-> 0,
   pc |-> [t \in Threads |-> "idle"],
   arg |-> [t \in Threads |-> FALSE],
   outcome |-> [t \in Threads |-> NoOutcome]]
NoMatching ==
  [plate_ingredients |-> <<>>, recipe_ingredients |-> <<>>, result |-> <<>>]

\* No invoke call is in its loop.  An invoke call in its loop has the event,
\* the position its iterator is at (from 1), and for the record the list it
\* began with, the handlers it called and those taken off the list before
\* their turn.
NoIteration ==
  [active |-> FALSE, event |-> "none", index |-> 0, begun |-> <<>>,
   called |-> <<>>, removed |-> {}]

OthersIdle ==
  /\ snapshot = NoSnapshot
  /\ threads = NoThreads
  /\ singleton = NoSingleton
  /\ matching = NoMatching
  /\ iteration = NoIteration

\* The manager's attributes after __init__ (lines 115-129), reached either
\* directly (cls(recipe_list_so)), which leaves cls._instance None, or
\* through get_instance (lines 131-139), which stores the new manager in
\* cls._instance.
ManagerInit ==
  /\ waiting_recipe_so_list = <<>>
  /\ spawn_recipe_timer = SPAWN_RECIPE_TIMER_MAX
  /\ successful_recipes_amount = 0
  /\ last_update_time = <<>>
  /\ is_game_playing = <<>>
  /\ instance \in BOOLEAN
  /\ last = Call("init", NoPlate, <<>>, "none", FALSE, 0)
  /\ timer_set_at = <<>>
  /\ succeeded = 0
  /\ spawned_events = 0
  /\ dispatch = NoDispatch

\* A manager constructed with the catalog RecipeListSO, nothing subscribed
\* to its events.
Init ==
  /\ ManagerInit
  /\ recipe_list_so = RecipeListSO
  /\ handlers = NoHandlers
  /\ OthersIdle

\* ------------------------------------------------------------------ update
\* Mutant of TimerExpired: the comparison is strict.
TimerExpired_Strict(t) == t < 0

\* line 160: if self._spawn_recipe_timer <= 0.0
TimerExpired(t) == t <= 0

\* Mutant of TimerAfterExpiry: the overshoot below zero is carried over.
TimerAfterExpiry_CarryOver(t) == t + SPAWN_RECIPE_TIMER_MAX

\* line 161: self._spawn_recipe_timer = self.SPAWN_RECIPE_TIMER_MAX
TimerAfterExpiry(t) == SPAWN_RECIPE_TIMER_MAX

\* Mutant of MaySpawn: an order is spawned only into an empty queue.
MaySpawn_OnlyWhenEmpty(playing, waiting) ==
  playing /\ Len(waiting) = 0

\* Mutant of MaySpawn: the capacity test is off by one.
MaySpawn_OffByOne(playing, waiting) ==
  playing /\ Len(waiting) <= WAITING_RECIPES_MAX

\* Mutant of MaySpawn: the gate is not consulted.
MaySpawn_IgnoreGate(playing, waiting) ==
  Len(waiting) < WAITING_RECIPES_MAX

\* lines 163-164: is_game_playing() and len(waiting) < WAITING_RECIPES_MAX
MaySpawn(playing, waiting) ==
  playing /\ Len(waiting) < WAITING_RECIPES_MAX

\* line 166: self._random(recipe_so_list), random.choice by default: any
\* element of the list.
RandomChoice(list) == { list[i] : i \in DOMAIN list }

\* Mutant of FirstBaseline: the first call measures from clock value 0.
FirstBaseline_Zero(now) == 0

\* lines 153-154: if self._last_update_time is None: ... = now
FirstBaseline(now) == now

\* update (lines 147-169); `now` is the value self._timer() returns.
update(now) ==
  LET base == IF last_update_time = <<>> THEN FirstBaseline(now)
              ELSE last_update_time[1]
      delta == now - base
      t == spawn_recipe_timer - delta
      set_at == IF timer_set_at = <<>> THEN <<base>> ELSE timer_set_at
      run == InvokeAll(handlers, Invoke(<<>>, "on_recipe_spawned"), 1, NoRun)
  IN /\ last_update_time' = <<now>>
     /\ UNCHANGED << successful_recipes_amount, is_game_playing, instance,
                     succeeded, recipe_list_so, handlers, others >>
     /\ IF TimerExpired(t)
        THEN /\ spawn_recipe_timer' = TimerAfterExpiry(t)
             /\ timer_set_at' = <<now>>
             /\ IF ~instance
                THEN \* get_instance() without a catalog, line 137
                     /\ UNCHANGED << waiting_recipe_so_list, spawned_events >>
                     /\ dispatch' = NoDispatch
                     /\ last' = Call("update", NoPlate, <<>>, "ValueError", TRUE, delta)
                ELSE IF is_game_playing = <<>>
                THEN \* is_game_playing() reads an attribute never assigned
                     /\ UNCHANGED << waiting_recipe_so_list, spawned_events >>
                     /\ dispatch' = NoDispatch
                     /\ last' = Call("update", NoPlate, <<>>, "AttributeError", TRUE, delta)
                ELSE IF ~MaySpawn(is_game_playing[1], waiting_recipe_so_list)
                THEN /\ UNCHANGED << waiting_recipe_so_list, spawned_events >>
                     /\ dispatch' = NoDispatch
                     /\ last' = Call("update", NoPlate, <<>>, "none", TRUE, delta)
                ELSE IF recipe_list_so = <<>>
                THEN \* random.choice of an empty list, line 166
                     /\ UNCHANGED << waiting_recipe_so_list, spawned_events >>
                     /\ dispatch' = NoDispatch
                     /\ last' = Call("update", NoPlate, <<>>, "IndexError", TRUE, delta)
                ELSE \E waiting_recipe_so \in RandomChoice(recipe_list_so) :
                       /\ waiting_recipe_so_list' =
                            Append(waiting_recipe_so_list, waiting_recipe_so)
                       /\ spawned_events' =
                            IF Fired("on_recipe_spawned", run.events)
                            THEN spawned_events + 1 ELSE spawned_events
                       /\ dispatch' = Published(run)
                       /\ last' = Call("update", NoPlate, run.events,
                                       RaisedByHandlers(run), TRUE, delta)
        ELSE /\ spawn_recipe_timer' = t
             /\ timer_set_at' = set_at
             /\ UNCHANGED << waiting_recipe_so_list, spawned_events >>
             /\ dispatch' = NoDispatch
             /\ last' = Call("update", NoPlate, <<>>, "none", FALSE, delta)

\* ---------------------------------------------------------- deliver_recipe
\* Counter(obj.object_id for obj in items), lines 175-176: the object ids
\* that occur, each with its number of occurrences.
Counter(items) ==
  [id \in { items[i].object_id : i \in DOMAIN items } |->
     Cardinality({ i \in DOMAIN items : items[i].object_id = id })]

\* Mutant of ingredients_match: the objects are counted, not their ids.
ingredients_match_ByObject(plate_ingredients, recipe_ingredients) ==
  \A o \in KitchenObjectSO \cup { Cherry } :
    Cardinality({ k \in DOMAIN plate_ingredients : plate_ingredients[k] = o })
      = Cardinality({ k \in DOMAIN recipe_ingredients :
                        recipe_ingredients[k] = o })

\* Mutant of ingredients_match: the ids are compared as sets, duplicates
\* ignored.
ingredients_match_AsSets(plate_ingredients, recipe_ingredients) ==
  DOMAIN Counter(plate_ingredients) = DOMAIN Counter(recipe_ingredients)

\* _ingredients_match (lines 171-177)
ingredients_match(plate_ingredients, recipe_ingredients) ==
  Counter(plate_ingredients) = Counter(recipe_ingredients)

\* Mutant of FirstMatch: the loop keeps the last matching index.
FirstMatch_Last(plate_ingredients, waiting) ==
  LET hits == { i \in DOMAIN waiting :
                  Counter(plate_ingredients) =
                    Counter(waiting[i].kitchen_object_so_list) }
  IN IF hits = {} THEN 0
     ELSE CHOOSE i \in hits : \A j \in hits : i >= j

\* The loop of lines 201-202: the first index (from 1) whose recipe matches
\* the plate, 0 when the loop ends without a match.
FirstMatch(plate_ingredients, waiting) ==
  LET hits == { i \in DOMAIN waiting :
                  ingredients_match(plate_ingredients,
                                    waiting[i].kitchen_object_so_list) }
  IN IF hits = {} THEN 0
     ELSE CHOOSE i \in hits : \A j \in hits : i <= j

\* Mutant of Pop: the matched order stays in the list.
Pop_Kept(waiting, i) == waiting

\* Mutant of Pop: pop(0), the head of the list is removed.
Pop_Head(waiting, i) == Tail(waiting)

\* line 204: self._waiting_recipe_so_list.pop(i), i counted from 1 here
Pop(waiting, i) ==
  SubSeq(waiting, 1, i - 1) \o SubSeq(waiting, i + 1, Len(waiting))

\* Mutant of Increment: the counter is left alone.
Increment_Forgotten(n) == n

\* line 203: self._successful_recipes_amount += 1
Increment(n) == n + 1

\* Mutant of PublishDelivered: success is published before completed.
PublishDelivered_Swapped(fired) ==
  Append(Append(fired, "on_recipe_success"), "on_recipe_completed")

\* lines 206-207: completed is published, then success
PublishDelivered(fired) ==
  Invoke(Invoke(fired, "on_recipe_completed"), "on_recipe_success")

\* lines 187, 193, 198, 211: self.on_recipe_failed.invoke(self)
PublishFailed(fired) == Invoke(fired, "on_recipe_failed")

\* deliver_recipe (lines 179-211)
deliver_recipe(plate) ==
  LET plate_ingredients == plate.items
      i == FirstMatch(plate_ingredients, waiting_recipe_so_list)
      delivered == /\ ~plate.isNone
                   /\ plate_ingredients # <<>>
                   /\ waiting_recipe_so_list # <<>>
                   /\ i # 0
      fired == IF delivered THEN PublishDelivered(<<>>) ELSE PublishFailed(<<>>)
      run == InvokeAll(handlers, fired, 1, NoRun)
  IN /\ successful_recipes_amount < MaxSuccess
     /\ IF delivered
        THEN /\ successful_recipes_amount' = Increment(successful_recipes_amount)
             /\ waiting_recipe_so_list' = Pop(waiting_recipe_so_list, i)
        ELSE UNCHANGED << successful_recipes_amount, waiting_recipe_so_list >>
     /\ last' = Call("deliver_recipe", plate, run.events,
                     RaisedByHandlers(run), FALSE, 0)
     /\ dispatch' = Published(run)
     /\ succeeded' = IF Fired("on_recipe_success", run.events)
                     THEN succeeded + 1 ELSE succeeded
     /\ UNCHANGED << spawn_recipe_timer, last_update_time, is_game_playing,
                     instance, timer_set_at, spawned_events, recipe_list_so, handlers,
                     others >>

\* -------------------------------------------------------------------- gate
\* start_game (lines 95-97)
start_game ==
  /\ is_game_playing' = <<TRUE>>
  /\ last' = Call("start_game", NoPlate, <<>>, "none", FALSE, 0)
  /\ UNCHANGED << waiting_recipe_so_list, spawn_recipe_timer,
                  successful_recipes_amount, last_update_time, instance,
                  timer_set_at, succeeded, spawned_events, recipe_list_so,
                  handlers, others >>
  /\ dispatch' = NoDispatch

\* stop_game (lines 99-101)
stop_game ==
  /\ is_game_playing' = <<FALSE>>
  /\ last' = Call("stop_game", NoPlate, <<>>, "none", FALSE, 0)
  /\ UNCHANGED << waiting_recipe_so_list, spawn_recipe_timer,
                  successful_recipes_amount, last_update_time, instance,
                  timer_set_at, succeeded, spawned_events, recipe_list_so,
                  handlers, others >>
  /\ dispatch' = NoDispatch

\* ----------------------------------------------------------------- getters
\* Mutant of Returned: the internal list itself is returned.
Returned_Internal(waiting) ==
  [held |-> TRUE, alias |-> TRUE, mutated |-> FALSE, items |-> waiting]

\* line 215: return list(self._waiting_recipe_so_list), a new list object
\* with the entries of the internal one.
Returned(waiting) ==
  [held |-> TRUE, alias |-> FALSE, mutated |-> FALSE, items |-> waiting]

\* get_waiting_recipe_so_list (lines 213-215); the caller keeps the list it
\* gets (kept) or drops it.
get_waiting_recipe_so_list(kept) ==
  /\ last' = Call("get_waiting_recipe_so_list", NoPlate, <<>>, "none", FALSE, 0)
  /\ snapshot' = IF kept THEN Returned(waiting_recipe_so_list) ELSE NoSnapshot
  /\ UNCHANGED << waiting_recipe_so_list, spawn_recipe_timer,
                  successful_recipes_amount, last_update_time, is_game_playing,
                  instance, timer_set_at, succeeded, spawned_events, recipe_list_so,
                  handlers, threads, singleton, matching, iteration >>
  /\ dispatch' = NoDispatch

\* get_successful_recipes_amount (lines 217-219)
get_successful_recipes_amount ==
  /\ last' = Call("get_successful_recipes_amount", NoPlate, <<>>, "none", FALSE, 0)
  /\ UNCHANGED << waiting_recipe_so_list, spawn_recipe_timer,
                  successful_recipes_amount, last_update_time, is_game_playing,
                  instance, timer_set_at, succeeded, spawned_events, recipe_list_so,
                  handlers, others >>
  /\ dispatch' = NoDispatch

Next ==
  \/ \E now \in Timestamps : update(now)
  \/ \E plate \in PlateKitchenObject : deliver_recipe(plate)
  \/ start_game
  \/ stop_game
  \/ get_waiting_recipe_so_list(FALSE)
  \/ get_successful_recipes_amount

Spec == Init /\ [][Next]_vars

\* A manager constructed with RecipeListSO([]): neither __init__ (lines
\* 115-129) nor get_instance (lines 131-139) looks at the length of the list.
InitEmptyCatalog ==
  /\ ManagerInit
  /\ recipe_list_so = <<>>
  /\ handlers = NoHandlers
  /\ OthersIdle

SpecEmptyCatalog == InitEmptyCatalog /\ [][Next]_vars

\* ------------------------------------------- _ingredients_match on its own
\* The manager as constructed through get_instance, nothing subscribed.
ManagerIdle ==
  /\ ManagerInit
  /\ instance
  /\ recipe_list_so = RecipeListSO
  /\ handlers = NoHandlers

manager == << waiting_recipe_so_list, spawn_recipe_timer,
              successful_recipes_amount, last_update_time, is_game_playing,
              instance, last, timer_set_at, succeeded, spawned_events,
              recipe_list_so >>

\* The two arguments of _ingredients_match: any two lists of kitchen objects.
InitMatch ==
  /\ ManagerIdle
  /\ snapshot = NoSnapshot
  /\ threads = NoThreads
  /\ singleton = NoSingleton
  /\ iteration = NoIteration
  /\ \E p, r \in SeqUpTo(KitchenObjectSO \cup { Cherry }, MaxMatchLen) :
       matching = [plate_ingredients |-> p, recipe_ingredients |-> r,
                   result |-> <<>>]

\* A call of _ingredients_match (lines 171-177) with the two lists.
ingredients_match_call ==
  /\ matching.result = <<>>
  /\ matching' = [matching EXCEPT !.result =
                    << ingredients_match(matching.plate_ingredients,
                                         matching.recipe_ingredients) >>]
  /\ UNCHANGED << manager, handlers, dispatch, snapshot, threads, singleton,
                  iteration >>

NextMatch == ingredients_match_call

SpecMatch == InitMatch /\ [][NextMatch]_vars

\* ------------------------------------------------- the events on their own
\* Handlers held by the four events together.
RECURSIVE Subscriptions(_, _)
Subscriptions(hmap, events) ==
  IF events = {} THEN 0
  ELSE LET e == CHOOSE x \in events : TRUE
       IN Len(hmap[e]) + Subscriptions(hmap, events \ { e })

\* <event>.add_handler(h), lines 22-25
add_handler(event, h) ==
  /\ Subscriptions(handlers, EventNames) < MaxSubscriptions
  /\ handlers' = [handlers EXCEPT ![event] = AddHandler(@, h)]
  /\ dispatch' = Dispatch("add_handler", event, h, NoRun)
  /\ UNCHANGED << manager, others >>

\* <event>.remove_handler(h), lines 27-30
remove_handler(event, h) ==
  /\ handlers' = [handlers EXCEPT ![event] = RemoveHandler(@, h)]
  /\ dispatch' = Dispatch("remove_handler", event, h, NoRun)
  /\ UNCHANGED << manager, others >>

\* <event>.invoke(sender), lines 32-38
invoke(event) ==
  /\ dispatch' = Dispatch("invoke", event, "none",
                          InvokeHandlers(event, handlers[event], NoRun))
  /\ UNCHANGED << manager, handlers, others >>

InitEvent ==
  /\ ManagerIdle
  /\ OthersIdle

NextEvent ==
  \/ \E event \in EventNames, h \in Handler : add_handler(event, h)
  \/ \E event \in EventNames, h \in Handler : remove_handler(event, h)
  \/ \E event \in EventNames : invoke(event)

SpecEvent == InitEvent /\ [][NextEvent]_vars

\* ------------------------------------ a caller holding the returned list
\* The caller assigns `items` to the list object it holds.  When that object
\* is the manager's own list, the manager's list changes with it.
Mutate(items) ==
  /\ snapshot.held
  /\ snapshot' = [snapshot EXCEPT !.items = items, !.mutated = TRUE]
  /\ waiting_recipe_so_list' =
       IF snapshot.alias THEN items ELSE waiting_recipe_so_list
  /\ UNCHANGED << spawn_recipe_timer, successful_recipes_amount,
                  last_update_time, is_game_playing, instance, last,
                  timer_set_at, succeeded, spawned_events, recipe_list_so,
                  handlers, dispatch, threads, singleton, matching,
                  iteration >>

\* returned.append(recipe)
snapshot_append(recipe) ==
  /\ Len(snapshot.items) < MaxSnapshotLen
  /\ Mutate(Append(snapshot.items, recipe))

\* returned.pop(k), k counted from 1 here
snapshot_pop(k) ==
  /\ k \in DOMAIN snapshot.items
  /\ Mutate(Pop(snapshot.items, k))

\* returned.reverse()
snapshot_reverse ==
  Mutate([k \in DOMAIN snapshot.items |->
            snapshot.items[Len(snapshot.items) + 1 - k]])

InitSnapshot ==
  /\ ManagerIdle
  /\ OthersIdle

NextSnapshot ==
  \/ \E now \in { 2 * k : k \in 0..MaxSnapshotTicks } : update(now)
  \/ \E plate \in PlateKitchenObject : deliver_recipe(plate)
  \/ start_game
  \/ \E kept \in BOOLEAN : get_waiting_recipe_so_list(kept)
  \/ \E recipe \in RandomChoice(RecipeListSO) : snapshot_append(recipe)
  \/ \E k \in 1..MaxSnapshotLen : snapshot_pop(k)
  \/ snapshot_reverse

SpecSnapshot == InitSnapshot /\ [][NextSnapshot]_vars

\* ------------------------------------------ get_instance under concurrency
\* Mutant of LockFree: the lock is not waited for.
LockFree_Ignored(lock) == TRUE

\* line 134: `with cls._lock` is entered when no thread holds the lock
LockFree(lock) == lock = 0

SingletonStep(next) ==
  /\ singleton' = next
  /\ UNCHANGED << manager, handlers, dispatch, snapshot, threads, matching,
                  iteration >>

\* A thread calls get_instance(recipe_list_so) or get_instance().
get_instance_call(t, with_catalog) ==
  /\ singleton.pc[t] \in { "idle", "done" }
  /\ SingletonStep([singleton EXCEPT !.pc[t] = "acquire",
                                     !.arg[t] = with_catalog,
                                     !.outcome[t] = NoOutcome])

\* line 134: with cls._lock
get_instance_acquire(t) ==
  /\ singleton.pc[t] = "acquire"
  /\ LockFree(singleton.lock)
  /\ SingletonStep([singleton EXCEPT !.pc[t] = "check", !.lock = t])

\* lines 135-137: the two tests; the ValueError leaves the with block,
\* which releases the lock
get_instance_check(t) ==
  /\ singleton.pc[t] = "check"
  /\ SingletonStep(
       IF singleton.instance # 0
       THEN [singleton EXCEPT !.pc[t] = "release"]
       ELSE IF singleton.arg[t]
       THEN [singleton EXCEPT !.pc[t] = "construct"]
       ELSE [singleton EXCEPT !.pc[t] = "done", !.lock = 0,
                              !.outcome[t] = [kind |-> "ValueError",
                                              value |-> 0]])

\* line 138: cls._instance = cls(recipe_list_so, timer, random_gen)
get_instance_construct(t) ==
  /\ singleton.pc[t] = "construct"
  /\ SingletonStep([singleton EXCEPT !.pc[t] = "release",
                                     !.constructed = @ + 1,
                                     !.instance = singleton.constructed + 1])

\* the end of the with block of line 134
get_instance_release(t) ==
  /\ singleton.pc[t] = "release"
  /\ SingletonStep([singleton EXCEPT !.pc[t] = "return", !.lock = 0])

\* line 139: return cls._instance, read after the lock is released
get_instance_return(t) ==
  /\ singleton.pc[t] = "return"
  /\ SingletonStep([singleton EXCEPT
                      !.pc[t] = "done",
                      !.outcome[t] = [kind |-> "returned",
                                      value |-> singleton.instance]])

\* reset_instance (lines 141-145), its with block taken as one step
reset_instance ==
  /\ singleton.resets < MaxResets
  /\ LockFree(singleton.lock)
  /\ SingletonStep([singleton EXCEPT !.instance = 0, !.resets = @ + 1])

InitSingleton ==
  /\ ManagerIdle
  /\ OthersIdle

NextSingleton ==
  \/ \E t \in Threads, with_catalog \in BOOLEAN :
       get_instance_call(t, with_catalog)
  \/ \E t \in Threads : get_instance_acquire(t)
  \/ \E t \in Threads : get_instance_check(t)
  \/ \E t \in Threads : get_instance_construct(t)
  \/ \E t \in Threads : get_instance_release(t)
  \/ \E t \in Threads : get_instance_return(t)
  \/ reset_instance

SpecSingleton == InitSingleton /\ [][NextSingleton]_vars

\* ---------------------------- update and deliver_recipe under concurrency
\* update and deliver_recipe take no lock (cls._lock is used by get_instance
\* and reset_instance only), so a thread can be suspended between any two
\* statements.  The steps below cut update after the test of line 160 and
\* after the test of lines 163-164, and deliver_recipe after the match of
\* line 202.

\* The plates the threads deliver: the ingredients of Salad, those of Puree.
ThreadPlates ==
  { [isNone |-> FALSE, items |-> << Tomato, Lettuce >>],
    [isNone |-> FALSE, items |-> << Tomato, Tomato >>] }

\* The manager after start_game and update calls at clock values 0, 4, 8
\* and 12 that drew Salad, Puree and Puree: three orders wait, the timer is
\* at its maximum.
InitThreads ==
  /\ waiting_recipe_so_list =
       << RecipeListSO[1], RecipeListSO[2], RecipeListSO[2] >>
  /\ spawn_recipe_timer = SPAWN_RECIPE_TIMER_MAX
  /\ successful_recipes_amount = 0
  /\ last_update_time = << 12 >>
  /\ is_game_playing = << TRUE >>
  /\ instance = TRUE
  /\ last = Call("update", NoPlate, << "on_recipe_spawned" >>, "none", TRUE, 4)
  /\ timer_set_at = << 12 >>
  /\ succeeded = 0
  /\ spawned_events = 3
  /\ dispatch = Dispatch("publish", "none", "none", NoRun)
  /\ recipe_list_so = RecipeListSO
  /\ handlers = NoHandlers
  /\ OthersIdle

ThreadStep(t, next) ==
  /\ threads' = [threads EXCEPT ![t] = next]
  /\ UNCHANGED << is_game_playing, instance, last, timer_set_at,
                  recipe_list_so, handlers, dispatch, snapshot, singleton,
                  matching, iteration >>

\* update, lines 151-160: the clock is read, the timer decreased and tested
update_begin(t, now) ==
  LET delta == now - last_update_time[1]
      timer == spawn_recipe_timer - delta
  IN /\ threads[t].pc = "idle"
     /\ last_update_time' = << now >>
     /\ spawn_recipe_timer' = timer
     /\ ThreadStep(t, [IdleThread EXCEPT !.pc =
                         IF TimerExpired(timer) THEN "update_reset"
                         ELSE "idle"])
     /\ UNCHANGED << waiting_recipe_so_list, successful_recipes_amount,
                     succeeded, spawned_events >>

\* update, lines 161-164: the timer is reset, the gate and the length tested
update_reset(t) ==
  /\ threads[t].pc = "update_reset"
  /\ spawn_recipe_timer' = TimerAfterExpiry(spawn_recipe_timer)
  /\ ThreadStep(t, [threads[t] EXCEPT
                      !.pc = IF MaySpawn(is_game_playing[1],
                                         waiting_recipe_so_list)
                             THEN "update_append" ELSE "idle"])
  /\ UNCHANGED << waiting_recipe_so_list, successful_recipes_amount,
                  last_update_time, succeeded, spawned_events >>

\* update, lines 166-169: a recipe is drawn and appended, spawned published
update_append(t) ==
  /\ threads[t].pc = "update_append"
  /\ \E waiting_recipe_so \in RandomChoice(recipe_list_so) :
       waiting_recipe_so_list' =
         Append(waiting_recipe_so_list, waiting_recipe_so)
  /\ spawned_events' = spawned_events + 1
  /\ ThreadStep(t, [threads[t] EXCEPT !.pc = "idle"])
  /\ UNCHANGED << spawn_recipe_timer, successful_recipes_amount,
                  last_update_time, succeeded >>

\* deliver_recipe, lines 184-202 and 210-211: the tests and the loop up to
\* the first match; without a match failed is published and the call ends
deliver_recipe_scan(t, plate) ==
  LET i == FirstMatch(plate.items, waiting_recipe_so_list)
  IN /\ threads[t].pc = "idle"
     /\ successful_recipes_amount < MaxSuccess
     /\ ThreadStep(t, IF i = 0 THEN [IdleThread EXCEPT !.plate = plate]
                      ELSE [IdleThread EXCEPT !.pc = "deliver_recipe_commit",
                                              !.plate = plate, !.i = i])
     /\ UNCHANGED << waiting_recipe_so_list, spawn_recipe_timer,
                     successful_recipes_amount, last_update_time, succeeded,
                     spawned_events >>

\* deliver_recipe, lines 203-208: the counter is incremented, position i is
\* popped (IndexError when the list has become shorter), the events published
deliver_recipe_commit(t) ==
  LET i == threads[t].i
  IN /\ threads[t].pc = "deliver_recipe_commit"
     /\ successful_recipes_amount' = Increment(successful_recipes_amount)
     /\ IF i > Len(waiting_recipe_so_list)
        THEN /\ ThreadStep(t, [threads[t] EXCEPT !.pc = "idle",
                                                 !.raised = "IndexError"])
             /\ UNCHANGED << waiting_recipe_so_list, succeeded >>
        ELSE /\ waiting_recipe_so_list' = Pop(waiting_recipe_so_list, i)
             /\ succeeded' = succeeded + 1
             /\ ThreadStep(t, [threads[t] EXCEPT
                                 !.pc = "idle",
                                 !.removed = << waiting_recipe_so_list[i] >>])
     /\ UNCHANGED << spawn_recipe_timer, last_update_time, spawned_events >>

NextThreads ==
  \/ \E t \in Threads, k \in 0..MaxThreadPeriods : update_begin(t, 12 + 4 * k)
  \/ \E t \in Threads : update_reset(t)
  \/ \E t \in Threads : update_append(t)
  \/ \E t \in Threads, plate \in ThreadPlates : deliver_recipe_scan(t, plate)
  \/ \E t \in Threads : deliver_recipe_commit(t)

SpecThreads == InitThreads /\ [][NextThreads]_vars

\* --------------------------------------- the manager with handlers subscribed
\* Handlers subscribed to the four events before the first call, one that
\* raises among them: first of two, between two others, absent, alone.
HandlersSubscribed ==
  [e \in EventNames |->
     CASE e = "on_recipe_spawned" -> << "faulty", "h1" >>
       [] e = "on_recipe_completed" -> << "h1", "faulty", "h2" >>
       [] e = "on_recipe_success" -> << "h2" >>
       [] e = "on_recipe_failed" -> << "faulty" >>]

InitFaulty ==
  /\ ManagerInit
  /\ recipe_list_so = RecipeListSO
  /\ handlers = HandlersSubscribed
  /\ OthersIdle

NextFaulty ==
  \/ \E now \in { 2 * k : k \in 0..MaxFaultyTicks } : update(now)
  \/ \E plate \in PlateKitchenObject : deliver_recipe(plate)
  \/ start_game
  \/ stop_game
  \/ get_waiting_recipe_so_list(FALSE)
  \/ get_successful_recipes_amount

SpecFaulty == InitFaulty /\ [][NextFaulty]_vars

\* ------------------------------- handlers that change the handler list
\* The event the handlers below are subscribed to.
ReentrantEvent == "on_recipe_spawned"

\* Handlers that call add_handler or remove_handler on the event they are
\* subscribed to: "leaver" removes itself when called, "remover" removes
\* h1, "adder" adds h2; h1 and h2 leave the list alone.
ReentrantHandler == { "h1", "h2", "leaver", "remover", "adder" }

\* The handler list after handler h has run on the list hs.
HandlerEffect(h, hs) ==
  CASE h = "leaver" -> RemoveHandler(hs, "leaver")
    [] h = "remover" -> RemoveHandler(hs, "h1")
    [] h = "adder" -> AddHandler(hs, "h2")
    [] OTHER -> hs

\* add_handler called between two invoke calls
reentrant_add_handler(h) ==
  /\ ~iteration.active
  /\ Len(handlers[ReentrantEvent]) < MaxReentrantHandlers
  /\ add_handler(ReentrantEvent, h)

\* remove_handler called between two invoke calls
reentrant_remove_handler(h) ==
  /\ ~iteration.active
  /\ remove_handler(ReentrantEvent, h)

\* invoke, line 34: `for handler in self._handlers` makes an iterator over
\* the list itself, at its first position
invoke_begin ==
  /\ ~iteration.active
  /\ iteration' = [active |-> TRUE, event |-> ReentrantEvent, index |-> 1,
                    begun |-> handlers[ReentrantEvent], called |-> <<>>,
                    removed |-> {}]
  /\ UNCHANGED << manager, handlers, dispatch, snapshot, threads, singleton,
                  matching >>

\* invoke, lines 34-38: the iterator yields the entry at its position of
\* the list as it is now, or ends the loop when the position is past the
\* end; the handler is called (and may change the list), the position
\* moves on by one
invoke_next ==
  LET hs == handlers[iteration.event]
      k == iteration.index
      after == HandlerEffect(hs[k], hs)
      called == Append(iteration.called, hs[k])
      gone == { h \in ReentrantHandler :
                  /\ Subscribed(hs, h)
                  /\ ~Subscribed(after, h)
                  /\ ~Subscribed(called, h) }
  IN /\ iteration.active
     /\ IF k > Len(hs)
        THEN /\ iteration' = [iteration EXCEPT !.active = FALSE]
             /\ UNCHANGED handlers
        ELSE /\ handlers' = [handlers EXCEPT ![iteration.event] = after]
             /\ iteration' = [iteration EXCEPT
                                !.index = k + 1,
                                !.called = called,
                                !.removed = @ \cup gone]
     /\ UNCHANGED << manager, dispatch, snapshot, threads, singleton,
                     matching >>

InitReentrant ==
  /\ ManagerIdle
  /\ OthersIdle

NextReentrant ==
  \/ \E h \in ReentrantHandler : reentrant_add_handler(h)
  \/ \E h \in ReentrantHandler : reentrant_remove_handler(h)
  \/ invoke_begin
  \/ invoke_next

SpecReentrant == InitReentrant /\ [][NextReentrant]_vars

\* ------------------------------------------------------------ the game loop
\* Time that passes between two update calls of the game loop: positive,
\* at least 2, at most one and a half timer periods.
LiveDeltas == { 2, 4, 6 }

\* The manager obtained through get_instance, after start_game and before
\* the first update.
InitLive ==
  /\ waiting_recipe_so_list = <<>>
  /\ spawn_recipe_timer = SPAWN_RECIPE_TIMER_MAX
  /\ successful_recipes_amount = 0
  /\ last_update_time = <<>>
  /\ is_game_playing = << TRUE >>
  /\ instance = TRUE
  /\ last = Call("start_game", NoPlate, <<>>, "none", FALSE, 0)
  /\ timer_set_at = <<>>
  /\ succeeded = 0
  /\ spawned_events = 0
  /\ dispatch = NoDispatch
  /\ recipe_list_so = RecipeListSO
  /\ handlers = NoHandlers
  /\ OthersIdle

\* One turn of a game loop such as that of lines 258-260: update is called
\* with a clock that has advanced since the previous turn (the first turn
\* reads 0 or 2).
game_loop_update(now) ==
  /\ IF last_update_time = <<>> THEN now \in { 0, 2 }
     ELSE now - last_update_time[1] \in LiveDeltas
  /\ update(now)

NextLive ==
  \E now \in { 2 * k : k \in 0..MaxLiveTicks } : game_loop_update(now)

\* The loop keeps calling update: a turn that can be taken is taken.
SpecLive == InitLive /\ [][NextLive]_vars /\ WF_vars(NextLive)

\* ================================================================ properties
\* Vocabulary of the properties, stated without the operators of the model.

\* Number of kitchen objects with object id `id` in `items`.
Occurrences(items, id) ==
  Cardinality({ k \in DOMAIN items : items[k].object_id = id })

ObjectIds == { o.object_id : o \in KitchenObjectSO }

\* The two lists hold every object id the same number of times.
SameMultiset(a, b) ==
  \A id \in ObjectIds : Occurrences(a, id) = Occurrences(b, id)

\* Queue positions whose order the plate satisfies.
Matching(plate, queue) ==
  IF plate.isNone \/ plate.items = <<>> THEN {}
  ELSE { k \in DOMAIN queue :
           SameMultiset(plate.items, queue[k].kitchen_object_so_list) }

Lowest(S) == CHOOSE k \in S : \A j \in S : k <= j

\* `queue` without position k, the rest in their order.
Without(queue, k) ==
  [j \in 1..(Len(queue) - 1) |-> IF j < k THEN queue[j] ELSE queue[j + 1]]

IsPrefix(a, b) == Len(a) <= Len(b) /\ SubSeq(b, 1, Len(a)) = a

\* The step is a call of method `op` (read in the state after the call).
Called(op) == last'.op = op

\* The gate as update reads it: the registered instance's flag is True.
GateActive == instance /\ is_game_playing = <<TRUE>>

\* What update computes from the state before the call.
NowOfStep == last_update_time'[1]
DeltaOfStep ==
  IF last_update_time = <<>> THEN 0 ELSE NowOfStep - last_update_time[1]
\* Time elapsed at this update since the timer was last set to its maximum.
ElapsedOfStep ==
  IF timer_set_at = <<>> THEN 0 ELSE NowOfStep - timer_set_at[1]

\* C1: in every reachable state the queue of waiting recipes holds at most
\* WAITING_RECIPES_MAX orders.
C1_QueueBounded ==
  Len(waiting_recipe_so_list) <= WAITING_RECIPES_MAX

\* C1 witness: an update has just spawned the order that fills the queue.
C1_Witness ==
  /\ last.op = "update"
  /\ Fired("on_recipe_spawned", last.fired)
  /\ Len(waiting_recipe_so_list) = WAITING_RECIPES_MAX

\* C2: an update call appends one order and publishes the spawned event if
\* and only if the time elapsed since the last timer reset has reached
\* SPAWN_RECIPE_TIMER_MAX (equivalently the timer is <= 0 after subtracting
\* delta), the gate is active and the queue is below capacity; every other
\* update call leaves the queue unchanged and publishes no spawned event.
C2_SpawnIff ==
  [][ Called("update") =>
        LET due == ElapsedOfStep >= SPAWN_RECIPE_TIMER_MAX
            room == Len(waiting_recipe_so_list) < WAITING_RECIPES_MAX
            appended == \E k \in DOMAIN RecipeListSO :
                          waiting_recipe_so_list' =
                            Append(waiting_recipe_so_list, RecipeListSO[k])
            spawned == last'.fired = << "on_recipe_spawned" >>
        IN /\ due <=> (spawn_recipe_timer - DeltaOfStep <= 0)
           /\ (appended /\ spawned) <=> (due /\ GateActive /\ room)
           /\ ~(due /\ GateActive /\ room) =>
                /\ waiting_recipe_so_list' = waiting_recipe_so_list
                /\ ~Fired("on_recipe_spawned", last'.fired) ]_vars

\* C2 witness: an update has spawned a third order.
C2_Witness ==
  /\ last.op = "update"
  /\ last.fired = << "on_recipe_spawned" >>
  /\ last.delta > 0
  /\ Len(waiting_recipe_so_list) = 3

\* C3: a deliver_recipe call with a non-empty plate whose ingredient-id
\* multiset equals that of at least one waiting order succeeds and removes
\* exactly the matching order at the lowest queue position; the other orders
\* stay, in their order.
C3_FirstMatchRemoved ==
  [][ (Called("deliver_recipe") /\
       Matching(last'.plate, waiting_recipe_so_list) # {}) =>
        /\ last'.fired = << "on_recipe_completed", "on_recipe_success" >>
        /\ waiting_recipe_so_list' =
             Without(waiting_recipe_so_list,
                     Lowest(Matching(last'.plate, waiting_recipe_so_list))) ]_vars

\* C3 witness: a delivery succeeded although the head of the queue does not
\* match the plate, and an order matching the plate is still waiting (so
\* more than one order matched and the earlier one left).
C3_Witness ==
  /\ last.op = "deliver_recipe"
  /\ Fired("on_recipe_success", last.fired)
  /\ Len(waiting_recipe_so_list) >= 2
  /\ 1 \notin Matching(last.plate, waiting_recipe_so_list)
  /\ Matching(last.plate, waiting_recipe_so_list) # {}

\* C4: a deliver_recipe call that does not succeed (None plate, empty plate,
\* empty queue, or no waiting order matching the plate) publishes exactly one
\* failed event and nothing else, and leaves the queue, the success counter
\* and the spawn timer unchanged.
C4_FailureNoMutation ==
  [][ (Called("deliver_recipe") /\
       Matching(last'.plate, waiting_recipe_so_list) = {}) =>
        /\ last'.fired = << "on_recipe_failed" >>
        /\ waiting_recipe_so_list' = waiting_recipe_so_list
        /\ successful_recipes_amount' = successful_recipes_amount
        /\ spawn_recipe_timer' = spawn_recipe_timer ]_vars

\* C4 witness: a plate with ingredients was refused while orders wait, one
\* of them differing from the plate only in the number of an ingredient.
C4_Witness ==
  /\ last.op = "deliver_recipe"
  /\ last.fired = << "on_recipe_failed" >>
  /\ ~last.plate.isNone
  /\ last.plate.items # <<>>
  /\ \E k \in DOMAIN waiting_recipe_so_list :
       /\ ~SameMultiset(last.plate.items,
                        waiting_recipe_so_list[k].kitchen_object_so_list)
       /\ \A id \in ObjectIds :
            Occurrences(last.plate.items, id) > 0 <=>
            Occurrences(waiting_recipe_so_list[k].kitchen_object_so_list, id) > 0

\* C5: the success counter equals the number of deliver_recipe calls so far
\* that succeeded; no call decreases it, and only a successful delivery
\* changes it.
C5_CounterCountsSuccesses ==
  /\ [](successful_recipes_amount = succeeded)
  /\ [][ /\ successful_recipes_amount' >= successful_recipes_amount
         /\ successful_recipes_amount' # successful_recipes_amount =>
              /\ Called("deliver_recipe")
              /\ Fired("on_recipe_success", last'.fired)
              /\ successful_recipes_amount' = successful_recipes_amount + 1 ]_vars

\* C5 witness: after one success a delivery has failed, the counter still 1.
C5_Witness ==
  /\ successful_recipes_amount = 1
  /\ last.op = "deliver_recipe"
  /\ last.fired = << "on_recipe_failed" >>
  /\ waiting_recipe_so_list # <<>>

\* C6: an order leaves the queue if and only if a deliver_recipe call accepts
\* a plate matching it; update, a failed delivery, start_game, stop_game and
\* the getters never remove or reorder a waiting order.
C6_RemovalOnlyByDelivery ==
  [][ LET accepted == /\ Called("deliver_recipe")
                      /\ Fired("on_recipe_success", last'.fired)
      IN /\ accepted =>
              \E k \in Matching(last'.plate, waiting_recipe_so_list) :
                 waiting_recipe_so_list' = Without(waiting_recipe_so_list, k)
         /\ ~accepted =>
              IsPrefix(waiting_recipe_so_list, waiting_recipe_so_list') ]_vars

\* C6 witness: an accepted delivery took its order out and left waiting an
\* order the plate does not match.
C6_Witness ==
  /\ last.op = "deliver_recipe"
  /\ last.fired = << "on_recipe_completed", "on_recipe_success" >>
  /\ waiting_recipe_so_list # <<>>
  /\ Matching(last.plate, waiting_recipe_so_list) = {}

\* The latest timestamp is not earlier than the one at which the timer was
\* last set to its maximum (so no net time has been taken back since).
ClockNotBehind ==
  last_update_time = <<>> \/ last_update_time[1] >= timer_set_at[1]

\* The timer is set to SPAWN_RECIPE_TIMER_MAX by exactly the update calls in
\* which it has dropped to zero or below; any other update lowers it by
\* delta and no other call touches it.
ResetExactlyOnExpiry ==
  /\ Called("update") =>
       LET t == spawn_recipe_timer - DeltaOfStep
       IN /\ last'.expired <=> t <= 0
          /\ spawn_recipe_timer' = IF t <= 0 THEN SPAWN_RECIPE_TIMER_MAX ELSE t
  /\ ~Called("update") => spawn_recipe_timer' = spawn_recipe_timer

\* C7 as claimed: the spawn timer is at most SPAWN_RECIPE_TIMER_MAX in every
\* reachable state, whatever timestamps update is given (increasing,
\* identical or decreasing), and it is reset in exactly the update calls in
\* which it has dropped to zero or below.
C7_AsClaimed ==
  /\ [](spawn_recipe_timer <= SPAWN_RECIPE_TIMER_MAX)
  /\ [][ResetExactlyOnExpiry]_vars

\* C7 amended: the spawn timer is at most SPAWN_RECIPE_TIMER_MAX whenever the
\* latest timestamp is not earlier than the timestamp of the last reset (the
\* first update's baseline before any reset), in particular for every
\* sequence of non-decreasing timestamps; and it is reset in exactly the
\* update calls in which it has dropped to zero or below.
C7_TimerBoundedUnlessClockBehind ==
  /\ [](ClockNotBehind => spawn_recipe_timer <= SPAWN_RECIPE_TIMER_MAX)
  /\ [][ResetExactlyOnExpiry]_vars

\* C7 witness: after a spawn, update accepted a decreasing timestamp that is
\* still not earlier than the last reset.
C7_Witness ==
  /\ last.op = "update"
  /\ last.delta < 0
  /\ ClockNotBehind
  /\ spawn_recipe_timer <= SPAWN_RECIPE_TIMER_MAX
  /\ waiting_recipe_so_list # <<>>

\* C8: every deliver_recipe call publishes either completed followed by
\* success (when an order matches the plate) and no failed event, or one
\* failed event and neither of the other two; it never publishes spawned.
C8_DeliveryEvents ==
  [][ Called("deliver_recipe") =>
        /\ ~Fired("on_recipe_spawned", last'.fired)
        /\ last'.fired =
             IF Matching(last'.plate, waiting_recipe_so_list) # {}
             THEN << "on_recipe_completed", "on_recipe_success" >>
             ELSE << "on_recipe_failed" >> ]_vars

\* C8 witness: a delivery of the only waiting order published completed and
\* then success.
C8_Witness ==
  /\ last.op = "deliver_recipe"
  /\ last.fired = << "on_recipe_completed", "on_recipe_success" >>
  /\ waiting_recipe_so_list = <<>>
  /\ successful_recipes_amount = 2

\* C9: when the timer expires in an update call while the gate is inactive
\* or the queue is at capacity, the timer is reset to SPAWN_RECIPE_TIMER_MAX,
\* the queue and the success counter are unchanged and no event is
\* published; and every spawn comes at least SPAWN_RECIPE_TIMER_MAX after the
\* last reset, consumed attempts included.
C9_AttemptConsumed ==
  [][ Called("update") =>
        LET expired == spawn_recipe_timer - DeltaOfStep <= 0
            blocked == \/ ~GateActive
                       \/ Len(waiting_recipe_so_list) >= WAITING_RECIPES_MAX
        IN /\ (expired /\ blocked) =>
                /\ spawn_recipe_timer' = SPAWN_RECIPE_TIMER_MAX
                /\ timer_set_at' = << NowOfStep >>
                /\ waiting_recipe_so_list' = waiting_recipe_so_list
                /\ successful_recipes_amount' = successful_recipes_amount
                /\ last'.fired = <<>>
           /\ Fired("on_recipe_spawned", last'.fired) =>
                /\ timer_set_at # <<>>
                /\ NowOfStep - timer_set_at[1] >= SPAWN_RECIPE_TIMER_MAX ]_vars

\* C9 witness: the timer expired with the gate active and the queue full; no
\* event was published and the timer is back at its maximum.
C9_Witness ==
  /\ last.op = "update"
  /\ last.expired
  /\ last.fired = <<>>
  /\ GateActive
  /\ Len(waiting_recipe_so_list) = WAITING_RECIPES_MAX
  /\ spawn_recipe_timer = SPAWN_RECIPE_TIMER_MAX

\* C10 as claimed: after an update whose delta is a (positive) multiple of
\* SPAWN_RECIPE_TIMER_MAX the queue has grown by at most one order and the
\* timer equals SPAWN_RECIPE_TIMER_MAX.
C10_AsClaimed ==
  [][ (Called("update") /\ DeltaOfStep > 0 /\
       DeltaOfStep % SPAWN_RECIPE_TIMER_MAX = 0) =>
        /\ Len(waiting_recipe_so_list') <= Len(waiting_recipe_so_list) + 1
        /\ spawn_recipe_timer' = SPAWN_RECIPE_TIMER_MAX ]_vars

\* C10 amended: an update call spawns at most one order whatever its delta;
\* and after an update whose delta is a positive multiple of
\* SPAWN_RECIPE_TIMER_MAX, called while the timer is at most
\* SPAWN_RECIPE_TIMER_MAX, the timer equals SPAWN_RECIPE_TIMER_MAX.
C10_NoCatchUp ==
  [][ Called("update") =>
        /\ Len(waiting_recipe_so_list') <= Len(waiting_recipe_so_list) + 1
        /\ (/\ DeltaOfStep > 0
            /\ DeltaOfStep % SPAWN_RECIPE_TIMER_MAX = 0
            /\ spawn_recipe_timer <= SPAWN_RECIPE_TIMER_MAX) =>
             spawn_recipe_timer' = SPAWN_RECIPE_TIMER_MAX ]_vars

\* C10 witness: one update with a delta of three timer periods spawned the
\* first and only order.
C10_Witness ==
  /\ last.op = "update"
  /\ last.delta = 3 * SPAWN_RECIPE_TIMER_MAX
  /\ last.fired = << "on_recipe_spawned" >>
  /\ Len(waiting_recipe_so_list) = 1
  /\ spawn_recipe_timer = SPAWN_RECIPE_TIMER_MAX

\* C16 as claimed: with an empty catalog no update call ends with the timer
\* reset and an error raised from the draw (the claim has construction fail
\* instead).  Violated under SpecEmptyCatalog: the constructor accepts the
\* empty catalog and random.choice raises IndexError at the first spawn
\* attempt, after the timer was reset.
C16_AsClaimed ==
  ~ ( /\ recipe_list_so = <<>>
      /\ last.op = "update"
      /\ last.expired
      /\ spawn_recipe_timer = SPAWN_RECIPE_TIMER_MAX
      /\ last.raised = "IndexError" )

\* C17 as claimed: the gate flag is False after construction, True after
\* start_game and False after stop_game.  Violated in the initial state: the
\* __init__ that survives in the class (lines 115-129) does not assign
\* _is_game_playing, so is_game_playing() raises AttributeError until
\* start_game or stop_game has run.
C17_AsClaimed ==
  /\ last.op = "init" => is_game_playing = <<FALSE>>
  /\ last.op = "start_game" => is_game_playing = <<TRUE>>
  /\ last.op = "stop_game" => is_game_playing = <<FALSE>>

\* C19: an update call to which no elapsed time is attributable (the first
\* one, or one whose timestamp equals that of the previous update) records
\* the timestamp and nothing else: timer, queue and success counter are
\* unchanged, no event is published and no error is raised, whatever the
\* gate state is.
C19_BaselineOnly ==
  [][ (Called("update") /\ DeltaOfStep = 0) =>
        /\ last_update_time' = << NowOfStep >>
        /\ spawn_recipe_timer' = spawn_recipe_timer
        /\ waiting_recipe_so_list' = waiting_recipe_so_list
        /\ successful_recipes_amount' = successful_recipes_amount
        /\ last'.fired = <<>>
        /\ last'.raised = "none" ]_vars

\* C19 witness: with the gate active, an order waiting and half a period
\* elapsed, update has been called again with the timestamp of the previous
\* update.
C19_Witness ==
  /\ last.op = "update"
  /\ last.delta = 0
  /\ last_update_time = << 6 >>
  /\ GateActive
  /\ Len(waiting_recipe_so_list) = 1
  /\ spawn_recipe_timer = 2

\* C20: in every reachable state the number of spawned events published so
\* far equals the queue length plus the success counter.
C20_Conservation ==
  spawned_events = Len(waiting_recipe_so_list) + successful_recipes_amount

\* C20 witness: three orders were spawned, two of them delivered, one waits.
C20_Witness ==
  /\ spawned_events = 3
  /\ successful_recipes_amount = 2
  /\ Len(waiting_recipe_so_list) = 1
  /\ last.op = "deliver_recipe"
  /\ Fired("on_recipe_success", last.fired)

RECURSIVE Except(_, _)
Except(hs, h) ==
  IF hs = <<>> THEN <<>>
  ELSE IF Head(hs) = h THEN Except(Tail(hs), h)
  ELSE << Head(hs) >> \o Except(Tail(hs), h)

NoDuplicates(hs) == \A j, k \in DOMAIN hs : hs[j] = hs[k] => j = k

\* C11: an event's handler list never holds a handler twice; add_handler
\* puts a handler that is not registered at the end of the list and leaves
\* the list alone when it is registered; remove_handler takes a registered
\* handler out, the others keeping their order, and leaves the list alone
\* when it is not registered; invoke calls the handlers registered at that
\* moment, each once, in the order of the list.  Other events' lists are
\* never touched.
C11_HandlersOnceInOrder ==
  [][ LET op == dispatch'.op
          e == dispatch'.event
          h == dispatch'.handler
          was == \E k \in DOMAIN handlers[e] : handlers[e][k] = h
      IN /\ \A x \in EventNames : NoDuplicates(handlers'[x])
         /\ op = "add_handler" =>
              /\ handlers'[e] = IF was THEN handlers[e]
                                ELSE handlers[e] \o << h >>
              /\ \A x \in EventNames \ { e } : handlers'[x] = handlers[x]
         /\ op = "remove_handler" =>
              /\ handlers'[e] = IF was THEN Except(handlers[e], h)
                                ELSE handlers[e]
              /\ \A x \in EventNames \ { e } : handlers'[x] = handlers[x]
         /\ op = "invoke" =>
              /\ handlers' = handlers
              /\ dispatch'.ran =
                   [k \in 1..Len(handlers[e]) |-> << e, handlers[e][k] >>]
              /\ ~dispatch'.escaped ]_vars

\* C11 witness: an event holds three handlers and invoke has just called
\* them in the order of the list, the raising one in the middle.
C11_Witness ==
  /\ dispatch.op = "invoke"
  /\ dispatch.event = "on_recipe_failed"
  /\ handlers["on_recipe_failed"] = << "h2", "faulty", "h1" >>
  /\ dispatch.ran = << << "on_recipe_failed", "h2" >>,
                       << "on_recipe_failed", "faulty" >>,
                       << "on_recipe_failed", "h1" >> >>

\* The handlers a call that publishes `fired` has to call: those of each
\* published event, event after event, in the order of their lists.
RECURSIVE Expected(_, _)
Expected(hmap, fired) ==
  IF fired = <<>> THEN <<>>
  ELSE [k \in 1..Len(hmap[Head(fired)]) |->
          << Head(fired), hmap[Head(fired)][k] >>]
       \o Expected(hmap, Tail(fired))

\* C12: with handlers that raise among the subscribers, no error reaches
\* the caller of update or deliver_recipe, every handler of every published
\* event is called, and the call does what it does without them: an update
\* that is due with the gate active and room in the queue appends one order
\* of the catalog and publishes spawned; a delivery that matches increments
\* the counter, removes the first matching order and publishes completed
\* then success; any other delivery publishes failed and changes nothing.
C12_FaultyHandlerIsolated ==
  [][ /\ (Called("update") /\ instance /\ is_game_playing # <<>>) =>
           LET due == spawn_recipe_timer - DeltaOfStep <= 0
               room == Len(waiting_recipe_so_list) < WAITING_RECIPES_MAX
               events == IF due /\ GateActive /\ room
                         THEN << "on_recipe_spawned" >> ELSE <<>>
           IN /\ last'.raised = "none"
              /\ last'.fired = events
              /\ dispatch'.ran = Expected(handlers, events)
              /\ ~dispatch'.escaped
              /\ IF events = <<>>
                 THEN waiting_recipe_so_list' = waiting_recipe_so_list
                 ELSE \E r \in { RecipeListSO[k] : k \in DOMAIN RecipeListSO } :
                        waiting_recipe_so_list' =
                          waiting_recipe_so_list \o << r >>
      /\ Called("deliver_recipe") =>
           LET hits == Matching(last'.plate, waiting_recipe_so_list)
               events == IF hits = {} THEN << "on_recipe_failed" >>
                         ELSE << "on_recipe_completed", "on_recipe_success" >>
           IN /\ last'.raised = "none"
              /\ last'.fired = events
              /\ dispatch'.ran = Expected(handlers, events)
              /\ ~dispatch'.escaped
              /\ IF hits = {}
                 THEN /\ waiting_recipe_so_list' = waiting_recipe_so_list
                      /\ successful_recipes_amount' = successful_recipes_amount
                 ELSE /\ waiting_recipe_so_list' =
                           Without(waiting_recipe_so_list, Lowest(hits))
                      /\ successful_recipes_amount' =
                           successful_recipes_amount + 1 ]_vars

\* C12 witness: a delivery has matched the second of three orders; the
\* handler that raised on completed was followed by the next completed
\* handler and by the success handler, and the order is gone.
C12_Witness ==
  /\ last.op = "deliver_recipe"
  /\ last.raised = "none"
  /\ dispatch.logged = << "faulty" >>
  /\ dispatch.ran = << << "on_recipe_completed", "h1" >>,
                       << "on_recipe_completed", "faulty" >>,
                       << "on_recipe_completed", "h2" >>,
                       << "on_recipe_success", "h2" >> >>
  /\ successful_recipes_amount = 1
  /\ Len(waiting_recipe_so_list) = 2
  /\ spawned_events = 3

\* C13: the list get_waiting_recipe_so_list returns equals the internal
\* queue, entry by entry; a second call right after a first returns what the
\* first returned; and a caller that appends to, pops from or reverses a
\* returned list changes nothing of the manager: not the queue, the timer,
\* the counter, the clock baseline or the gate, on which alone the results
\* of later update and deliver_recipe calls depend.
C13_SnapshotIsCopy ==
  [][ /\ ( /\ Called("get_waiting_recipe_so_list")
           /\ snapshot'.held
           /\ ~snapshot'.mutated ) =>
           /\ snapshot'.items = waiting_recipe_so_list
           /\ waiting_recipe_so_list' = waiting_recipe_so_list
           /\ ( ( /\ last.op = "get_waiting_recipe_so_list"
                  /\ snapshot.held
                  /\ ~snapshot.mutated ) => snapshot'.items = snapshot.items )
      /\ (snapshot'.mutated /\ snapshot'.items # snapshot.items) =>
           /\ waiting_recipe_so_list' = waiting_recipe_so_list
           /\ spawn_recipe_timer' = spawn_recipe_timer
           /\ successful_recipes_amount' = successful_recipes_amount
           /\ last_update_time' = last_update_time
           /\ is_game_playing' = is_game_playing
           /\ recipe_list_so' = recipe_list_so
           /\ handlers' = handlers ]_vars

\* C13 witness: the caller has reversed a returned list of two different
\* orders and popped one; the queue still holds both in their order.
C13_Witness ==
  /\ snapshot.held
  /\ snapshot.mutated
  /\ Len(snapshot.items) = 1
  /\ Len(waiting_recipe_so_list) = 2
  /\ waiting_recipe_so_list[1] # waiting_recipe_so_list[2]
  /\ snapshot.items[1] = waiting_recipe_so_list[1]

\* C15: until reset_instance is called, concurrent get_instance calls
\* construct at most one manager, every call that returns returns that
\* manager, a call given a catalog always returns, and a call raises
\* ValueError only when it was given no catalog.
C15_OneInstance ==
  singleton.resets = 0 =>
    /\ singleton.constructed <= 1
    /\ singleton.instance = singleton.constructed
    /\ \A t \in Threads :
         /\ singleton.outcome[t].kind = "returned" =>
              singleton.outcome[t].value = 1
         /\ singleton.outcome[t].kind = "ValueError" => ~singleton.arg[t]

\* C15 witness: no reset yet; a thread that called with a catalog has
\* returned the manager it found; the thread that constructed it, having
\* released the lock, has yet to return: the calls overlapped.
C15_Witness ==
  /\ singleton.resets = 0
  /\ singleton.constructed = 1
  /\ singleton.pc[1] = "return"
  /\ singleton.pc[2] = "done"
  /\ singleton.arg[2]
  /\ singleton.outcome[2] = [kind |-> "returned", value |-> 1]

\* C14 as claimed: with update and deliver_recipe called from several
\* threads the queue never exceeds WAITING_RECIPES_MAX, no call fails on a
\* queue another call changed under it, and the order a delivery removes is
\* the order its plate matched, so that no order is credited twice.
\* Violated under SpecThreads: two deliveries of the same plate both match
\* the one Salad order before either removes it; the second then removes
\* the Puree order its plate does not match, and the counter is 2.
C14_AsClaimed ==
  /\ Len(waiting_recipe_so_list) <= WAITING_RECIPES_MAX
  /\ \A t \in Threads :
       /\ threads[t].raised = "none"
       /\ threads[t].removed # <<>> =>
            SameMultiset(threads[t].plate.items,
                         threads[t].removed[1].kitchen_object_so_list)

\* C21: in a game loop with the gate active, a catalog that is not empty,
\* no delivery and a clock that advances by at least 2 between update calls,
\* the queue eventually holds WAITING_RECIPES_MAX orders and keeps holding
\* them; once it is full no update changes it or publishes spawned.
C21_QueueFillsAndStays ==
  /\ <>[](Len(waiting_recipe_so_list) = WAITING_RECIPES_MAX)
  /\ [][ Len(waiting_recipe_so_list) = WAITING_RECIPES_MAX =>
           /\ waiting_recipe_so_list' = waiting_recipe_so_list
           /\ spawned_events' = spawned_events
           /\ ~Fired("on_recipe_spawned", last'.fired) ]_vars

\* C21 witness: with the queue full after four spawned events, the timer
\* has expired again and the update published nothing.
C21_Witness ==
  /\ Len(waiting_recipe_so_list) = WAITING_RECIPES_MAX
  /\ spawned_events = WAITING_RECIPES_MAX
  /\ successful_recipes_amount = 0
  /\ last.op = "update"
  /\ last.expired
  /\ last.fired = <<>>
  /\ spawn_recipe_timer = SPAWN_RECIPE_TIMER_MAX

\* Number of times handler h occurs in the list hs.
Times(hs, h) == Cardinality({ k \in DOMAIN hs : hs[k] = h })

\* C22 as claimed: when an invoke call has ended, every handler that was on
\* the list when it began and was not taken off before its turn has been
\* called exactly once, whatever the handlers did to the list.  Violated
\* under SpecReentrant: the iterator of line 34 walks the list itself by
\* position, so when a handler removes itself (or a handler already called)
\* the entries behind it move up by one and the next one is never yielded.
C22_AsClaimed ==
  ( /\ ~iteration.active
    /\ iteration.event # "none" ) =>
    \A h \in ReentrantHandler :
      ( /\ Times(iteration.begun, h) > 0
        /\ h \notin iteration.removed ) => Times(iteration.called, h) = 1

====
